---- MODULE Spec2Model ----
(***************************************************************************)
(* BuildExecutor (buildtest/executors/setup.py): the run method, which     *)
(* fans builders out to a multiprocessing pool and collects the results,   *)
(* and the poll method, which narrows _pending into _completed and         *)
(* _cancelled.                                                             *)
(*                                                                         *)
(* A builder handed to run is a number 1..MaxBuilders; every call of run   *)
(* is given builders not handed to it before.  The pool runs each unit of  *)
(* work in another process, so what result.get() hands back is a new       *)
(* object: <<b, g>> is the object that the g-th call of run got back for   *)
(* builder b.  The lists and sets of the orchestrator hold these objects,  *)
(* and a property about "a builder" reads them by their first component.   *)
(*                                                                         *)
(* What a unit of work returns (a builder, or None from a dispatch that    *)
(* got no job) and what a backend poll reports are inputs.  A job that a   *)
(* backend poll has reported complete or failed keeps that state.          *)
(*                                                                         *)
(* The control thread is followed statement by statement (pc); a worker    *)
(* takes a unit of work and finishes it in two steps of its own, which     *)
(* interleave with the control thread while the pool is open.              *)
(***************************************************************************)
EXTENDS Integers, Sequences, FiniteSets, TLC

\* Bounds of the model.

\* builders ever handed to run
MaxBuilders == 2

\* calls of run
MaxRuns == 2

\* units of work handed to a pool, over all calls of run
MaxSubmits == 2

\* os.cpu_count() of the host is in 1..MaxCpus
MaxCpus == 2

\* the configured numprocs is in 0..MaxProcs, 0 standing for "not configured"
MaxProcs == 2

\* the iteration counter of poll saturates here
MaxIter == 2

VARIABLES
    executor,       \* executor[b]: kind of the backend builder b names
    numprocs,       \* run: what target_config.get("numprocs") gave, 0 = None
    cpu_count,      \* run: what os.cpu_count() gave
    pc,             \* position of the control thread
    call,           \* the method last entered: "none", "run" or "poll"
    err,            \* how that call ended: "none", "ExecutorError", "ValueError"
    runs,           \* calls of run so far
    submits,        \* units of work handed to a pool so far
    args,           \* run: builders of the argument not yet resolved
    builders,       \* self.builders
    idx,            \* index of the for loop the control thread is in
    results,        \* run: the list results of AsyncResult objects
    task,           \* task[b]: state of the unit of work of builder b
    ready,          \* run: async_results_ready of the current pass
    pool,           \* the worker pool: "none", "open", "closed", "joined"
    num_workers,    \* width of the pool
    validbuilders,  \* self._validbuilders
    pending,        \* self._pending
    completed,      \* self._completed
    cancelled,      \* self._cancelled
    job,            \* objects with a job attached (builder.is_batch_job())
    complete,       \* objects for which builder.is_complete() holds
    failure,        \* objects for which builder.is_failure() holds
    completed_l,    \* poll: the local list completed
    cancelled_l,    \* poll: the local list cancelled
    iter,           \* poll: iterations (sleeps) of the current call
    dropped,        \* history: units of work that yielded an empty result
    entry,          \* history: _validbuilders when the current run was called
    snap,           \* history: the orchestrator's lists when the current call began
    recorded,       \* builders handed to executor.add_builder, in order
    polled          \* poll: builders handed to executor.poll in this iteration

vars == <<executor, numprocs, cpu_count, pc, call, err, runs, submits, args,
          builders,
          idx, results, task, ready, pool, num_workers, validbuilders,
          pending, completed, cancelled, job, complete, failure,
          completed_l, cancelled_l, iter, dropped, entry, snap, recorded,
          polled>>

Kinds == {"local", "batch", "unknown"}

Range(s) == {s[i] : i \in 1..Len(s)}

Min(a, b) == IF a < b THEN a ELSE b

\* list.remove(x): drop the first element equal to x.
RECURSIVE ListRemove(_, _)
ListRemove(s, x) ==
    IF s = <<>> THEN <<>>
    ELSE IF Head(s) = x THEN Tail(s)
    ELSE <<Head(s)>> \o ListRemove(Tail(s), x)

\* [r for r in s if r not in d], the effect of removing each collected result.
RECURSIVE Without(_, _)
Without(s, d) ==
    IF s = <<>> THEN <<>>
    ELSE IF Head(s) \in d THEN Without(Tail(s), d)
    ELSE <<Head(s)>> \o Without(Tail(s), d)

\* A lookup that takes every name for a registered executor.
Resolves_Always(b) == TRUE

\* self.get(name) is a BaseExecutor
Resolves(b) == executor[b] \in {"local", "batch"}

\* A width taken from the configuration as it is, without the min.
NumWorkers_NoClamp(np, cpus) == IF np # 0 THEN np ELSE cpus

\* numprocs or os.cpu_count(), then the min with os.cpu_count()
NumWorkers(np, cpus) == Min(IF np # 0 THEN np ELSE cpus, cpus)

\* A collection that keeps whatever result.get() returned, None included.
IsBuilder_AnyResult(t) == t \in {"ok", "empty"}

\* isinstance(task, BuilderBase): the unit of work returned a builder
IsBuilder(t) == t = "ok"

\* A run that does not wait for the results at all.
Drained_NoWait(rs) == TRUE

\* A collection loop that gives up while one result is still outstanding.
Drained_OneLeft(rs) == Len(rs) <= 1

\* while results: is left when the list is empty
Drained(rs) == rs = <<>>

\* [o for o in v if o.is_batch_job()]
RECURSIVE BatchJobs(_, _)
BatchJobs(v, j) ==
    IF v = <<>> THEN <<>>
    ELSE IF Head(v) \in j THEN <<Head(v)>> \o BatchJobs(Tail(v), j)
    ELSE BatchJobs(Tail(v), j)

\* A partition that takes every valid builder for a batch job.
IsBatchJob_Any(o, j) == TRUE

\* builder.is_batch_job(): the builder's job attribute is a Job, which is the
\* case once executor.dispatch has submitted it.
IsBatchJob(o, j) == o \in j

\* A poll that itself adds the batch jobs of _validbuilders to _pending.
PollEntry_Repartition(p, v, j) == p \o BatchJobs(v, j)

\* What poll appends to _pending when it is entered: nothing; run's
\* partition is the only place that fills _pending.
PollEntry(p, v, j) == p

\* A classification that tests is_failure() before is_complete().
Classify_FailureFirst(o, cs, fs) ==
    IF o \in fs THEN "cancelled"
    ELSE IF o \in cs THEN "completed"
    ELSE "pending"

\* A classification without the elif branch.
Classify_NoFailure(o, cs, fs) ==
    IF o \in cs THEN "completed" ELSE "pending"

\* if builder.is_complete(): completed ... elif builder.is_failure(): cancelled
Classify(o, cs, fs) ==
    IF o \in cs THEN "completed"
    ELSE IF o \in fs THEN "cancelled"
    ELSE "pending"

\* No call has begun, or the last one has returned.
NoSnapshot ==
    [live |-> FALSE, n |-> 0, submits |-> 0, builders |-> <<>>,
     valid |-> <<>>, pending |-> <<>>, completed |-> {}, cancelled |-> {}]

\* self.builders, self._validbuilders, self._pending, self._completed and
\* self._cancelled as a call finds them; n is the number of builders ever
\* handed to run.
Snapshot ==
    [live |-> TRUE, n |-> Len(executor), submits |-> submits,
     builders |-> builders, valid |-> validbuilders, pending |-> pending,
     completed |-> completed, cancelled |-> cancelled]

Init ==
    /\ executor = <<>>
    /\ numprocs = 0
    /\ cpu_count = 0
    /\ pc = "idle"
    /\ call = "none"
    /\ err = "none"
    /\ runs = 0
    /\ submits = 0
    /\ args = <<>>
    /\ builders = <<>>
    /\ idx = 0
    /\ results = <<>>
    /\ task = [b \in 1..MaxBuilders |-> "none"]
    /\ ready = <<>>
    /\ pool = "none"
    /\ num_workers = 0
    /\ validbuilders = <<>>
    /\ pending = <<>>
    /\ completed = {}
    /\ cancelled = {}
    /\ job = {}
    /\ complete = {}
    /\ failure = {}
    /\ completed_l = <<>>
    /\ cancelled_l = <<>>
    /\ iter = 0
    /\ dropped = {}
    /\ entry = <<>>
    /\ snap = NoSnapshot
    /\ recorded = <<>>
    /\ polled = <<>>


\* The objects of a list, as the set of builders they came from.
Ids(S) == {o[1] : o \in S}

\* Units of work a call of run with these builders hands to the pool: one
\* for each builder of self.builders, none when a builder does not resolve.
Units(ks) ==
    IF \E i \in 1..Len(ks) : ks[i] = "unknown" THEN 0
    ELSE Len(builders) + Len(ks)

ArgLists == UNION {[1..n -> Kinds] : n \in 0..(MaxBuilders - Len(executor))}

---------------------------------------------------------------------------
\* run(builders)

\* A caller enters run with a list of new builders; ks[i] is the kind of
\* executor the i-th of them names.
RunCall(ks) ==
    /\ pc = "idle"
    /\ runs < MaxRuns
    /\ submits + Units(ks) <= MaxSubmits
    /\ executor' = executor \o ks
    /\ args' = [i \in 1..Len(ks) |-> Len(executor) + i]
    /\ runs' = runs + 1
    /\ call' = "run"
    /\ err' = "none"
    /\ entry' = validbuilders
    /\ pc' = "resolve"
    /\ snap' = Snapshot
    /\ UNCHANGED <<recorded, polled, submits, numprocs, cpu_count, builders, idx, results, task, ready,
                   pool, num_workers, validbuilders, pending, completed,
                   cancelled, job, complete, failure, completed_l,
                   cancelled_l, iter, dropped>>

\* for builder in builders: _choose_executor, add_builder, self.builders.append
ResolveOk ==
    /\ pc = "resolve"
    /\ args # <<>>
    /\ Resolves(Head(args))
    /\ builders' = Append(builders, Head(args))
    /\ args' = Tail(args)
    /\ recorded' = Append(recorded, Head(args))
    /\ UNCHANGED <<snap, polled, submits, executor, numprocs, cpu_count, pc, call, err, runs, idx,
                   results, task, ready, pool, num_workers, validbuilders,
                   pending, completed, cancelled, job, complete, failure,
                   completed_l, cancelled_l, iter, dropped, entry>>

\* An abort that takes the builders recorded by this call off self.builders.
ResolveFail_Rollback ==
    /\ pc = "resolve"
    /\ args # <<>>
    /\ ~Resolves(Head(args))
    /\ args' = <<>>
    /\ err' = "ExecutorError"
    /\ pc' = "idle"
    /\ builders' = snap.builders
    /\ recorded' = snap.builders
    /\ UNCHANGED <<snap, polled, submits, executor, numprocs, cpu_count, call, runs, idx,
                   results, task, ready, pool, num_workers, validbuilders,
                   pending, completed, cancelled, job, complete, failure,
                   completed_l, cancelled_l, iter, dropped, entry>>

\* _choose_executor raises ExecutorError: run is left by the exception.
ResolveFail ==
    /\ pc = "resolve"
    /\ args # <<>>
    /\ ~Resolves(Head(args))
    /\ args' = <<>>
    /\ err' = "ExecutorError"
    /\ pc' = "idle"
    /\ UNCHANGED <<snap, recorded, polled, submits, executor, numprocs, cpu_count, call, runs, builders, idx,
                   results, task, ready, pool, num_workers, validbuilders,
                   pending, completed, cancelled, job, complete, failure,
                   completed_l, cancelled_l, iter, dropped, entry>>

\* results = []; num_workers = ...; workers = mp.Pool(num_workers)
CreatePool(np, cpus) ==
    /\ pc = "resolve"
    /\ args = <<>>
    /\ results' = <<>>
    /\ numprocs' = np
    /\ cpu_count' = cpus
    /\ num_workers' = NumWorkers(np, cpus)
    /\ pool' = "open"
    /\ idx' = 1
    /\ pc' = "submit"
    /\ UNCHANGED <<snap, recorded, polled, submits, executor, call, err, runs, args, builders, task, ready,
                   validbuilders, pending, completed, cancelled, job,
                   complete, failure, completed_l, cancelled_l, iter,
                   dropped, entry>>

\* for builder in self.builders: workers.apply_async(...); results.append
Submit ==
    /\ pc = "submit"
    /\ idx <= Len(builders)
    /\ task' = [task EXCEPT ![builders[idx]] = "queued"]
    /\ results' = Append(results, builders[idx])
    /\ idx' = idx + 1
    /\ submits' = submits + 1
    /\ UNCHANGED <<snap, recorded, polled, executor, numprocs, cpu_count, pc, call, err, runs, args,
                   builders, ready, pool, num_workers, validbuilders, pending,
                   completed, cancelled, job, complete, failure, completed_l,
                   cancelled_l, iter, dropped, entry>>

\* The for loop is over; while results: starts a pass or falls through.
SubmitDone ==
    /\ pc = "submit"
    /\ idx > Len(builders)
    /\ ready' = <<>>
    /\ idx' = 1
    /\ pc' = IF Drained(results) THEN "close" ELSE "collect"
    /\ UNCHANGED <<snap, recorded, polled, submits, executor, numprocs, cpu_count, call, err, runs, args,
                   builders, results, task, pool, num_workers, validbuilders,
                   pending, completed, cancelled, job, complete, failure,
                   completed_l, cancelled_l, iter, dropped, entry>>

Running == {b \in 1..MaxBuilders : task[b] = "running"}

\* A worker process takes the oldest queued unit of work (units of work are
\* queued in the order of self.builders, which is the order of the numbers).
WorkerStart(b) ==
    /\ pool \in {"open", "closed"}
    /\ task[b] = "queued"
    /\ \A c \in 1..MaxBuilders : task[c] = "queued" => b <= c
    /\ Cardinality(Running) < num_workers
    /\ task' = [task EXCEPT ![b] = "running"]
    /\ UNCHANGED <<snap, recorded, polled, submits, executor, numprocs, cpu_count, pc, call, err, runs, args,
                   builders, idx, results, ready, pool, num_workers,
                   validbuilders, pending, completed, cancelled, job,
                   complete, failure, completed_l, cancelled_l, iter,
                   dropped, entry>>

\* A unit of work that appended its builder to self._validbuilders itself.
WorkerRun_Appends(b) ==
    /\ task[b] = "running"
    /\ executor[b] = "local"
    /\ task' = [task EXCEPT ![b] = "ok"]
    /\ validbuilders' = Append(validbuilders, <<b, runs>>)
    /\ UNCHANGED <<snap, recorded, polled, submits, executor, numprocs, cpu_count, pc, call, err, runs, args,
                   builders, idx, results, ready, pool, num_workers,
                   pending, completed, cancelled, job,
                   complete, failure, completed_l, cancelled_l, iter,
                   dropped, entry>>

\* executor.run(builder) of a local executor returns the builder.
WorkerRun(b) ==
    /\ task[b] = "running"
    /\ executor[b] = "local"
    /\ task' = [task EXCEPT ![b] = "ok"]
    /\ UNCHANGED <<snap, recorded, polled, submits, executor, numprocs, cpu_count, pc, call, err, runs, args,
                   builders, idx, results, ready, pool, num_workers,
                   validbuilders, pending, completed, cancelled, job,
                   complete, failure, completed_l, cancelled_l, iter,
                   dropped, entry>>

\* executor.dispatch(builder) of a batch executor returns the builder with a
\* job attached, or None when the job could not be submitted.
WorkerDispatch(b, submitted) ==
    /\ task[b] = "running"
    /\ executor[b] = "batch"
    /\ task' = [task EXCEPT ![b] = IF submitted THEN "ok" ELSE "empty"]
    /\ job' = IF submitted THEN job \cup {<<b, runs>>} ELSE job
    /\ dropped' = IF submitted THEN dropped ELSE dropped \cup {<<b, runs>>}
    /\ UNCHANGED <<snap, recorded, polled, submits, executor, numprocs, cpu_count, pc, call, err, runs, args,
                   builders, idx, results, ready, pool, num_workers,
                   validbuilders, pending, completed, cancelled, complete,
                   failure, completed_l, cancelled_l, iter, entry>>

\* task = result.get(0.1) returns: the result joins async_results_ready and,
\* when it is a builder, self._validbuilders.
Get ==
    /\ pc = "collect"
    /\ idx <= Len(results)
    /\ task[results[idx]] \in {"ok", "empty"}
    /\ ready' = Append(ready, results[idx])
    /\ validbuilders' =
          IF IsBuilder(task[results[idx]])
          THEN Append(validbuilders, <<results[idx], runs>>)
          ELSE validbuilders
    /\ idx' = idx + 1
    /\ UNCHANGED <<snap, recorded, polled, submits, executor, numprocs, cpu_count, pc, call, err, runs, args,
                   builders, results, task, pool, num_workers, pending,
                   completed, cancelled, job, complete, failure, completed_l,
                   cancelled_l, iter, dropped, entry>>

\* result.get(0.1) raises mp.TimeoutError: continue with the next result.
Timeout ==
    /\ pc = "collect"
    /\ idx <= Len(results)
    /\ task[results[idx]] \in {"queued", "running"}
    /\ idx' = idx + 1
    /\ UNCHANGED <<snap, recorded, polled, submits, executor, numprocs, cpu_count, pc, call, err, runs, args,
                   builders, results, task, ready, pool, num_workers,
                   validbuilders, pending, completed, cancelled, job,
                   complete, failure, completed_l, cancelled_l, iter,
                   dropped, entry>>

\* for result in async_results_ready: results.remove(result); while results:
EndPass ==
    /\ pc = "collect"
    /\ idx > Len(results)
    /\ results' = Without(results, Range(ready))
    /\ ready' = <<>>
    /\ idx' = 1
    /\ pc' = IF Drained(results') THEN "close" ELSE "collect"
    /\ UNCHANGED <<snap, recorded, polled, submits, executor, numprocs, cpu_count, call, err, runs, args,
                   builders, task, pool, num_workers, validbuilders, pending,
                   completed, cancelled, job, complete, failure, completed_l,
                   cancelled_l, iter, dropped, entry>>

\* workers.close()
Close ==
    /\ pc = "close"
    /\ pool' = "closed"
    /\ pc' = "join"
    /\ UNCHANGED <<snap, recorded, polled, submits, executor, numprocs, cpu_count, call, err, runs, args,
                   builders, idx, results, task, ready, num_workers,
                   validbuilders, pending, completed, cancelled, job,
                   complete, failure, completed_l, cancelled_l, iter,
                   dropped, entry>>

\* workers.join() returns once no unit of work is queued or held by a worker.
Join ==
    /\ pc = "join"
    /\ \A b \in 1..MaxBuilders : task[b] \notin {"queued", "running"}
    /\ pool' = "joined"
    /\ idx' = 1
    /\ pc' = "partition"
    /\ UNCHANGED <<snap, recorded, polled, submits, executor, numprocs, cpu_count, call, err, runs, args,
                   builders, results, task, ready, num_workers,
                   validbuilders, pending, completed, cancelled, job,
                   complete, failure, completed_l, cancelled_l, iter,
                   dropped, entry>>

\* for builder in self._validbuilders: if builder.is_batch_job(): append
Partition ==
    /\ pc = "partition"
    /\ idx <= Len(validbuilders)
    /\ pending' = IF IsBatchJob(validbuilders[idx], job)
                  THEN Append(pending, validbuilders[idx])
                  ELSE pending
    /\ idx' = idx + 1
    /\ UNCHANGED <<snap, recorded, polled, submits, executor, numprocs, cpu_count, pc, call, err, runs, args,
                   builders, results, task, ready, pool, num_workers,
                   validbuilders, completed, cancelled, job, complete,
                   failure, completed_l, cancelled_l, iter, dropped, entry>>

\* run returns
RunReturn ==
    /\ pc = "partition"
    /\ idx > Len(validbuilders)
    /\ task' = [b \in 1..MaxBuilders |-> "none"]
    /\ idx' = 0
    /\ numprocs' = 0
    /\ cpu_count' = 0
    /\ num_workers' = 0
    /\ pool' = "none"
    /\ entry' = <<>>
    /\ pc' = "idle"
    /\ snap' = NoSnapshot
    /\ UNCHANGED <<recorded, polled, submits, executor, call, err, runs, args, builders, results, ready,
                   validbuilders, pending, completed, cancelled, job,
                   complete, failure, completed_l, cancelled_l, iter,
                   dropped>>

---------------------------------------------------------------------------
\* poll()

PollOutcomes == {"pending", "complete", "failed", "both"}

\* executor.poll(builder) refreshes the state of the job.  A job that has
\* reached a final state keeps it; any other job stays as it is or is
\* reported complete, failed, or both.
PolledComplete(o, out) ==
    IF o \in complete \cup failure THEN complete
    ELSE IF out \in {"complete", "both"} THEN complete \cup {o}
    ELSE complete

PolledFailure(o, out) ==
    IF o \in complete \cup failure THEN failure
    ELSE IF out \in {"failed", "both"} THEN failure \cup {o}
    ELSE failure

\* A caller enters poll.
PollCall ==
    /\ pc = "idle"
    /\ call' = "poll"
    /\ err' = "none"
    /\ iter' = 0
    /\ pending' = PollEntry(pending, validbuilders, job)
    /\ pc' = "while"
    /\ snap' = Snapshot
    /\ entry' = <<>>
    /\ UNCHANGED <<recorded, polled, submits, executor, numprocs, cpu_count, runs, args, builders, idx,
                   results, task, ready, pool, num_workers, validbuilders,
                   completed, cancelled, job, complete, failure, completed_l,
                   cancelled_l, dropped>>

\* while self._pending: time.sleep(self.pollinterval); cancelled = []; ...
Sleep ==
    /\ pc = "while"
    /\ pending # <<>>
    /\ iter' = Min(iter + 1, MaxIter)
    /\ completed_l' = <<>>
    /\ cancelled_l' = <<>>
    /\ idx' = 1
    /\ pc' = "scan"
    /\ polled' = <<>>
    /\ UNCHANGED <<snap, recorded, submits, executor, numprocs, cpu_count, call, err, runs, args,
                   builders, results, task, ready, pool, num_workers,
                   validbuilders, pending, completed, cancelled, job,
                   complete, failure, dropped, entry>>

\* The loop is left; if self._cancelled: print(...); poll returns.
PollReturn ==
    /\ pc = "while"
    /\ pending = <<>>
    /\ iter' = 0
    /\ pc' = "idle"
    /\ snap' = NoSnapshot
    /\ UNCHANGED <<recorded, polled, submits, executor, numprocs, cpu_count, call, err, runs,
                   args, builders, idx, results, task, ready, pool,
                   num_workers, validbuilders, pending, completed, cancelled,
                   job, complete, failure, completed_l, cancelled_l, dropped,
                   entry>>

\* for builder in self._pending: executor.poll(builder); classify
Scan(out) ==
    /\ pc = "scan"
    /\ idx <= Len(pending)
    /\ LET o == pending[idx]
           cs == PolledComplete(o, out)
           fs == PolledFailure(o, out)
           k == Classify(o, cs, fs)
       IN /\ complete' = cs
          /\ failure' = fs
          /\ completed_l' = IF k = "completed" THEN Append(completed_l, o)
                            ELSE completed_l
          /\ cancelled_l' = IF k = "cancelled" THEN Append(cancelled_l, o)
                            ELSE cancelled_l
    /\ idx' = idx + 1
    /\ polled' = Append(polled, pending[idx])
    /\ UNCHANGED <<snap, recorded, submits, executor, numprocs, cpu_count, pc, call, err, runs, args,
                   builders, results, task, ready, pool, num_workers,
                   validbuilders, pending, completed, cancelled, job, iter,
                   dropped, entry>>

ScanDone ==
    /\ pc = "scan"
    /\ idx > Len(pending)
    /\ idx' = 0
    /\ pc' = "move"
    /\ UNCHANGED <<snap, recorded, polled, submits, executor, numprocs, cpu_count, call, err, runs, args,
                   builders, results, task, ready, pool, num_workers,
                   validbuilders, pending, completed, cancelled, job,
                   complete, failure, completed_l, cancelled_l, iter,
                   dropped, entry>>

\* A move that removes the builder from _pending without adding it to
\* _completed.
MoveCompleted_NoAdd ==
    /\ pc = "move"
    /\ completed_l # <<>>
    /\ pending' = ListRemove(pending, Head(completed_l))
    /\ completed_l' = Tail(completed_l)
    /\ UNCHANGED <<snap, recorded, polled, submits, executor, numprocs, cpu_count, pc, call, err, runs, args,
                   builders, idx, results, task, ready, pool, num_workers,
                   validbuilders, completed, cancelled, job, complete, failure,
                   cancelled_l, iter, dropped, entry>>

\* for builder in completed: self._pending.remove; self._completed.add
MoveCompleted ==
    /\ pc = "move"
    /\ completed_l # <<>>
    /\ pending' = ListRemove(pending, Head(completed_l))
    /\ completed' = completed \cup {Head(completed_l)}
    /\ completed_l' = Tail(completed_l)
    /\ UNCHANGED <<snap, recorded, polled, submits, executor, numprocs, cpu_count, pc, call, err, runs, args,
                   builders, idx, results, task, ready, pool, num_workers,
                   validbuilders, cancelled, job, complete, failure,
                   cancelled_l, iter, dropped, entry>>

\* for builder in cancelled: self._pending.remove; self._cancelled.add;
\* self._validbuilders.remove
MoveCancelled ==
    /\ pc = "move"
    /\ completed_l = <<>>
    /\ cancelled_l # <<>>
    /\ Head(cancelled_l) \in Range(validbuilders)
    /\ pending' = ListRemove(pending, Head(cancelled_l))
    /\ cancelled' = cancelled \cup {Head(cancelled_l)}
    /\ validbuilders' = ListRemove(validbuilders, Head(cancelled_l))
    /\ cancelled_l' = Tail(cancelled_l)
    /\ UNCHANGED <<snap, recorded, polled, submits, executor, numprocs, cpu_count, pc, call, err, runs, args,
                   builders, idx, results, task, ready, pool, num_workers,
                   completed, job, complete, failure, completed_l, iter,
                   dropped, entry>>

\* self._validbuilders.remove(builder) of a builder the list does not hold
\* raises ValueError: poll is left by the exception, after the two
\* statements before it.
MoveCancelledError ==
    /\ pc = "move"
    /\ completed_l = <<>>
    /\ cancelled_l # <<>>
    /\ Head(cancelled_l) \notin Range(validbuilders)
    /\ pending' = ListRemove(pending, Head(cancelled_l))
    /\ cancelled' = cancelled \cup {Head(cancelled_l)}
    /\ cancelled_l' = <<>>
    /\ iter' = 0
    /\ err' = "ValueError"
    /\ pc' = "idle"
    /\ polled' = <<>>
    /\ UNCHANGED <<snap, recorded, submits, executor, numprocs, cpu_count, call, runs, args,
                   builders, idx, results, task, ready, pool, num_workers,
                   validbuilders, completed, job, complete, failure,
                   completed_l, dropped, entry>>

\* self.print_pending_jobs(); back to the while test
EndIter ==
    /\ pc = "move"
    /\ completed_l = <<>>
    /\ cancelled_l = <<>>
    /\ pc' = "while"
    /\ polled' = <<>>
    /\ UNCHANGED <<snap, recorded, submits, executor, numprocs, cpu_count, call, err, runs, args,
                   builders, idx, results, task, ready, pool, num_workers,
                   validbuilders, pending, completed, cancelled, job,
                   complete, failure, completed_l, cancelled_l, iter,
                   dropped, entry>>

---------------------------------------------------------------------------
Next ==
    \/ \E ks \in ArgLists : RunCall(ks)
    \/ ResolveOk
    \/ ResolveFail
    \/ \E np \in 0..MaxProcs : \E cpus \in 1..MaxCpus : CreatePool(np, cpus)
    \/ Submit
    \/ SubmitDone
    \/ \E b \in 1..MaxBuilders : WorkerStart(b)
    \/ \E b \in 1..MaxBuilders : WorkerRun(b)
    \/ \E b \in 1..MaxBuilders : \E submitted \in BOOLEAN : WorkerDispatch(b, submitted)
    \/ Get
    \/ Timeout
    \/ EndPass
    \/ Close
    \/ Join
    \/ Partition
    \/ RunReturn
    \/ PollCall
    \/ Sleep
    \/ PollReturn
    \/ \E out \in PollOutcomes : Scan(out)
    \/ ScanDone
    \/ MoveCompleted
    \/ MoveCancelled
    \/ MoveCancelledError
    \/ EndIter

Spec == Init /\ [][Next]_vars

---------------------------------------------------------------------------
\* Vocabulary of the properties.

\* Number of times x occurs in the list s.
Count(s, x) == Cardinality({i \in 1..Len(s) : s[i] = x})

\* The objects the orchestrator tracks.
Tracked == Range(pending) \cup completed \cup cancelled

\* Number of tracking collections that hold the object o.
Memberships(o) ==
    (IF o \in Range(pending) THEN 1 ELSE 0)
    + (IF o \in completed THEN 1 ELSE 0)
    + (IF o \in cancelled THEN 1 ELSE 0)

\* A call of poll has ended, by a return or by an exception.
PollOver == call = "poll" /\ pc = "idle"

\* A call of poll has returned.
PollReturned == PollOver /\ err = "none"

\* An iteration of the current call of poll has just ended.
IterationOver == call = "poll" /\ pc = "while" /\ iter >= 1

---------------------------------------------------------------------------
\* C1: in every reachable state, under any sequence of run and poll calls,
\* every builder is in at most one of _pending, _completed and _cancelled,
\* and occurs at most once in _pending.
C1_AtMostOneTrackingSet ==
    \A o \in Tracked : Memberships(o) <= 1 /\ Count(pending, o) <= 1

\* C2: a builder in _completed or _cancelled stays in that set and does not
\* enter _pending again, whatever run and poll calls follow.
C2_OneDirectional ==
    [][\A o \in completed \cup cancelled :
          /\ o \in completed => o \in completed'
          /\ o \in cancelled => o \in cancelled'
          /\ Count(pending', o) <= Count(pending, o)]_vars

SyncTerminal(b) ==
    /\ executor[b] = "local"
    /\ b \in Ids(Range(validbuilders))
    /\ b \notin Ids(Tracked)

IsCompleted(b) == b \in Ids(completed)

IsCancelled(b) == b \in Ids(cancelled)

IsDropped(b) == b \notin Ids(Range(validbuilders)) \cup Ids(Tracked)

Outcomes(b) ==
    (IF SyncTerminal(b) THEN 1 ELSE 0)
    + (IF IsCompleted(b) THEN 1 ELSE 0)
    + (IF IsCancelled(b) THEN 1 ELSE 0)
    + (IF IsDropped(b) THEN 1 ELSE 0)

\* C4: when run followed by poll has returned, every submitted builder is in
\* exactly one of the outcomes synchronous-terminal, completed, cancelled and
\* dropped, and none is left in _pending.
C4_ExactlyOneOutcome ==
    (PollReturned /\ runs >= 1) =>
        /\ pending = <<>>
        /\ \A b \in Range(builders) : Outcomes(b) = 1

\* C5: the polling loop is left only with _pending empty: whenever a call of
\* poll is over, _pending is empty.
C5_ExitsWithPendingEmpty == PollOver => pending = <<>>

C7_RemovalNeverErrors == err # "ValueError"

\* The results this call of run has appended to _validbuilders.
Collected == SubSeq(validbuilders, Len(entry) + 1, Len(validbuilders))

\* The non-empty results of the units of work of this call of run.
Yielded == {<<b, runs>> : b \in {c \in Range(builders) : task[c] = "ok"}}

\* C8: run appends to _validbuilders each non-empty result of its units of
\* work once and nothing else, whatever the width of the pool, and closes and
\* joins the pool only when every unit of work has yielded its result.
C8_AllResultsCollectedOnce ==
    (call = "run" /\ pc \in {"collect", "close", "join", "partition"}) =>
        /\ Len(validbuilders) >= Len(entry)
        /\ SubSeq(validbuilders, 1, Len(entry)) = entry
        /\ Range(Collected) \subseteq Yielded
        /\ \A o \in Range(Collected) : Count(Collected, o) = 1
        /\ pc # "collect" =>
              /\ results = <<>>
              /\ Range(Collected) = Yielded
              /\ \A b \in Range(builders) : task[b] \in {"ok", "empty"}
        /\ pool \in {"closed", "joined"} => pc \in {"join", "partition"}

\* C8 witness: a pool of width one has run two synchronous builders and has
\* been joined, and both are in _validbuilders.
C8_Witness ==
    /\ call = "run"
    /\ pc = "partition"
    /\ pool = "joined"
    /\ num_workers = 1
    /\ Len(builders) = 2
    /\ \A b \in Range(builders) : executor[b] = "local"
    /\ Len(validbuilders) = 2

C10_CompleteWins ==
    \A o \in complete \cap failure :
        /\ o \notin cancelled
        /\ o \notin Range(cancelled_l)
        /\ o \in Range(validbuilders)
        /\ IterationOver => o \in completed

\* C10 witness: poll has returned with such a builder in _completed.
C10_Witness ==
    /\ PollReturned
    /\ \E o \in complete \cap failure : o \in completed

\* The control thread is inside run and has created the pool.
PoolCreated == call = "run" /\ pc \in {"submit", "collect", "close", "join", "partition"}

Given == (snap.n + 1)..Len(executor)

\* A call has ended, by a return or by an exception.
CallOver == pc = "idle" /\ call # "none"

\* C12: run and poll are left by an exception only when run was given a
\* builder whose executor does not resolve; after any other failure
\* (a dispatch without a job, a failed job) they return.
C12_OnlyConfigurationErrorAborts ==
    CallOver =>
        \/ err = "none"
        \/ /\ err = "ExecutorError"
           /\ call = "run"
           /\ snap.live
           /\ \E b \in Given : ~Resolves(b)

\* C13: when a builder given to run names an executor that does not
\* resolve, run is left with ExecutorError before the pool is created: no
\* unit of work exists, and _validbuilders, _pending, _completed and
\* _cancelled are as the call found them.
C13_AbortBeforePool ==
    (call = "run" /\ snap.live /\ \E b \in Given : executor[b] = "unknown") =>
        /\ pool = "none"
        /\ submits = snap.submits
        /\ \A b \in 1..MaxBuilders : task[b] = "none"
        /\ validbuilders = snap.valid
        /\ pending = snap.pending
        /\ completed = snap.completed
        /\ cancelled = snap.cancelled
        /\ pc = "idle" => err = "ExecutorError"

\* C13 witness: run has been left with ExecutorError; the builder given
\* before the unresolvable one names a batch executor, and an earlier call
\* had left builders in the lists.
C13_Witness ==
    /\ call = "run"
    /\ pc = "idle"
    /\ err = "ExecutorError"
    /\ validbuilders # <<>>
    /\ \E b \in Given : executor[b] = "unknown"

\* The control thread is inside poll.
Polling == call = "poll" /\ pc \in {"while", "scan", "move"}

\* A unit of work is in flight: queued, held by a worker, or finished with
\* its result not yet taken by run.
InFlight == results # <<>> \/ \E b \in 1..MaxBuilders : task[b] # "none"

\* C14: submission and polling do not overlap: while the control thread is
\* inside poll no unit of work is in flight and no pool is open, and every
\* step that polls a backend or moves a builder out of _pending is taken in
\* such a state.
C14_NoOverlap ==
    /\ [](Polling => ~InFlight /\ pool = "none")
    /\ [][(polled' # polled \/ completed' # completed \/ cancelled' # cancelled)
            => ~InFlight /\ pool = "none"]_vars

\* C14 witness: a backend is polled for a builder that run dispatched.
C14_Witness ==
    /\ Polling
    /\ pc = "scan"
    /\ polled # <<>>
    /\ runs >= 1

\* C15: a builder a backend poll has marked failed (and not complete) is
\* never in _completed, and when poll is over it has been moved from
\* _pending to _cancelled and removed from _validbuilders.
C15_FailedEndsCancelled ==
    \A o \in failure \ complete :
        /\ o \notin completed
        /\ PollOver =>
              /\ o \in cancelled
              /\ o \notin Range(pending)
              /\ o \notin Range(validbuilders)


\* A step of a worker of the pool: a unit of work starts, or
\* executor.run / executor.dispatch returns.
WorkerStep ==
    \E b \in 1..MaxBuilders :
        \/ task[b] = "queued" /\ task'[b] = "running"
        \/ task[b] = "running" /\ task'[b] \in {"ok", "empty"}

\* C16: a step of a worker (a unit of work starting or returning) leaves the
\* builder list, valid-builders, _pending, _completed and _cancelled
\* unchanged, wherever the control thread stands.
C16_WorkersLeaveCollections ==
    [][WorkerStep =>
          UNCHANGED <<builders, validbuilders, pending, completed,
                      cancelled>>]_vars

\* A unit of work has returned while the control thread is still in the
\* submission loop and builders of an earlier run are pending.
C16_Witness ==
    /\ pc = "submit"
    /\ \E b \in 1..MaxBuilders : task[b] \in {"ok", "empty"}
    /\ pending # <<>>


\* C17: within one poll iteration _pending does not change while it is
\* scanned, the builders polled so far are the scanned prefix of it, and when
\* the scan has finished every builder that was pending at the start of the
\* iteration has been polled exactly once.
C17_StableSnapshot ==
    /\ [](pc = "scan" =>
            /\ polled = SubSeq(pending, 1, idx - 1)
            /\ idx > Len(pending) =>
                  \A o \in Range(pending) : Count(polled, o) = 1)
    /\ [][pc = "scan" => pending' = pending]_vars


\* run has reached its end: the partition loop is done, or run has returned.
RunEnd ==
    /\ call = "run"
    /\ err = "none"
    /\ \/ pc = "idle"
       \/ pc = "partition" /\ idx > Len(validbuilders)

\* C18: at the end of run the builders in _pending are exactly the valid
\* builders that are batch jobs, every builder this run dispatched with a job
\* is among them, and a builder of a local executor is never in _pending,
\* _completed or _cancelled and is never polled.
C18_PendingIsBatchJobs ==
    /\ RunEnd =>
          /\ Range(pending) = {o \in Range(validbuilders) : IsBatchJob(o, job)}
          /\ \A o \in job : o[2] = runs => o \in Range(pending)
    /\ \A o \in Tracked \cup Range(polled) \cup Range(completed_l)
                \cup Range(cancelled_l) :
          executor[o[1]] = "batch" /\ o \in job

\* C18 witness: run ends with a builder of a local executor valid and not
\* pending and a dispatched builder pending.
C18_Witness ==
    /\ RunEnd
    /\ \E o \in Range(validbuilders) :
          executor[o[1]] = "local" /\ o \notin Range(pending)
    /\ \E o \in Range(pending) : executor[o[1]] = "batch"


\* C19: in every state of a poll call, _pending, _completed and _cancelled
\* together hold exactly the builders they held when poll was entered, and
\* _validbuilders is its value at poll entry without the builders cancelled
\* since.
C19_Conservation ==
    (call = "poll" /\ snap.live) =>
        /\ Tracked = Range(snap.pending) \cup snap.completed \cup snap.cancelled
        /\ validbuilders = Without(snap.valid, cancelled \ snap.cancelled)

\* C19 witness: poll has moved one builder to _completed and another to
\* _cancelled and is still running.
C19_Witness ==
    /\ Polling
    /\ snap.live
    /\ completed # snap.completed
    /\ cancelled # snap.cancelled


\* The builders of this call's argument that come before the first one whose
\* executor does not resolve, in order.
RECURSIVE ResolvedPrefix(_, _)
ResolvedPrefix(b, n) ==
    IF b > n \/ ~Resolves(b) THEN <<>>
    ELSE <<b>> \o ResolvedPrefix(b + 1, n)

\* run has been left by ExecutorError.
RunAborted == call = "run" /\ pc = "idle" /\ err = "ExecutorError"

\* run has submitted its units of work and not yet returned.
Submitted == call = "run" /\ pc \in {"collect", "close", "join"}

\* C20: when run aborts at the k-th builder of its argument, self.builders is
\* its value at the call followed by the builders before the k-th, each of
\* them recorded under its executor; self.builders never loses a builder; and
\* every run that reaches submission submits one unit of work for every
\* builder of self.builders, those of earlier calls included.
C20_AbortKeepsEarlierBuilders ==
    /\ []((RunAborted /\ snap.live) =>
            /\ builders = snap.builders \o ResolvedPrefix(snap.n + 1, Len(executor))
            /\ recorded = builders)
    /\ []((Submitted /\ snap.live) =>
            /\ submits = snap.submits + Len(builders)
            /\ \A b \in Range(builders) : task[b] # "none")
    /\ [][Len(builders') >= Len(builders)
            /\ SubSeq(builders', 1, Len(builders)) = builders]_vars

\* C20 witness: a run that found builders recorded although nothing had ever
\* been submitted (they were recorded by a call that aborted) has submitted
\* them.
C20_Witness ==
    /\ Submitted
    /\ snap.live
    /\ snap.submits = 0
    /\ snap.builders # <<>>
    /\ \E u \in 1..Len(executor) : executor[u] = "unknown"
    /\ \A b \in Range(snap.builders) : task[b] # "none"

====
